---- MODULE Spec2Model ----
(***************************************************************************)
(* A model of the Gray-Scott reaction-diffusion servers.                   *)
(*                                                                         *)
(*   simulation.py   SimulationSession and the sampler it steps with       *)
(*   server.py       the always-on server: request handlers, one lock,     *)
(*                   a background stepping thread                          *)
(*   dual_server.py  the comparison server: batch workers, native stepper  *)
(*                                                                         *)
(* Concentrations are fixed-point integers: the value x stands for the     *)
(* float x / Scale.  A grid of rows x cols cells is the flattened          *)
(* (row-major) sequence of its cells, as the code stores it.               *)
(***************************************************************************)
EXTENDS Integers, Sequences, FiniteSets, TLC

VARIABLES
    program,             \* what runs: "server", "api" or "dual", or "pair":
                         \* two SimulationSession objects called directly
    session,             \* <<>> (None) or <<the SimulationSession object>>:
                         \* server.py's session, dual_server.py's thrml_session
    session_lock,        \* "free" or the thread holding threading.Lock()
    simulation_running,  \* server.py: the scheduler flag
    thr,                 \* every thread: its position and the rest of its body
    ghost,               \* bookkeeping used only by the properties
    last,                \* the last completed call: what, with what, result
    native,              \* dual_server.py: U_native, V_native, U_next, V_next
                         \* and native_history
    simulation_status,   \* dual_server.py: the status dict
    params,              \* dual_server.py: the parameter dict
    twin                 \* "pair": the second SimulationSession object

\* the globals of dual_server.py that server.py does not have
dual_globals == <<native, simulation_status, params>>

vars == <<program, session, session_lock, simulation_running, thr, ghost, last,
          dual_globals, twin>>

-----------------------------------------------------------------------------
(* Bounds of the model *)

\* fixed-point resolution: x stands for x / Scale
Scale == 1000

\* history entries a session may hold before stepping requests are refused
MaxHist == 3

\* dual_server.py, scaled down: the grid (256 x 256 in the code), the target
\* of a run to target (2000), the steps of one sub-batch (10)
ROWS == 1

COLS == 4

TARGET_STEPS == 3

batch_size == 2

\* steps the comparison server may be asked to run in all
MaxRunSteps == 6

\* requests that change the comparison server's state (run, run-to-target,
\* reset, params) in one behaviour; status and state requests are not counted
MaxRequests == 1

-----------------------------------------------------------------------------
(* Arithmetic helpers *)

Min(a, b) == IF a < b THEN a ELSE b

Max(a, b) == IF a > b THEN a ELSE b

\* a value given in thousandths, in fixed-point units
Milli(x) == (x * Scale) \div 1000

\* float('nan'): the value float() returns for the text "nan", which a
\* request may carry as a parameter.  It stands outside the fixed-point
\* range; arithmetic with a NaN operand gives NaN.
NaN == -(1000 * Scale)

IsNaN(x) == x = NaN

\* np.clip(x, 0, 1) / jnp.clip(x, 0.0, 1.0): minimum(maximum(x, 0), 1), and
\* maximum and minimum return NaN for a NaN operand
Clip(x) == IF IsNaN(x) THEN NaN
           ELSE IF x < 0 THEN 0 ELSE IF x > Scale THEN Scale ELSE x

\* Python's seq[i] for an int i: negative indices count from the end.
\* Defined only when -Len(seq) <= i < Len(seq) (else IndexError).
PyIndexOk(seq, i) == -Len(seq) <= i /\ i < Len(seq)

PyIndex(seq, i) == IF i < 0 THEN seq[Len(seq) + i + 1] ELSE seq[i + 1]

\* the indices selected by the slice [lo:hi] of an axis of length n
PySlice(lo, hi, n) ==
    LET norm(x) == IF x < 0 THEN Max(x + n, 0) ELSE Min(x, n)
    IN  { i \in 0..(n - 1) : norm(lo) <= i /\ i < norm(hi) }

\* Python's range(start, stop, stride) as a sequence (stride # 0)
RECURSIVE PyRange(_, _, _)
PyRange(start, stop, stride) ==
    IF stride > 0
    THEN IF start >= stop THEN <<>>
         ELSE <<start>> \o PyRange(start + stride, stop, stride)
    ELSE IF start <= stop THEN <<>>
         ELSE <<start>> \o PyRange(start + stride, stop, stride)

-----------------------------------------------------------------------------
(* Grids *)

NCells(rows, cols) == rows * cols

\* position of cell (r, c) in the flattened grid (1-based sequence index)
Idx(r, c, cols) == r * cols + c + 1

RowOf(i, cols) == (i - 1) \div cols

ColOf(i, cols) == (i - 1) % cols

\* create_reaction_diffusion_grid: the periodic 4-neighbour graph.  nx.Graph
\* is a simple undirected graph, so an edge added twice is one edge, and an
\* edge from a cell to itself (rows = 1 or cols = 1) is one self-loop.
Edges(rows, cols) ==
    { {i, Idx((RowOf(i, cols) + d[1]) % rows, (ColOf(i, cols) + d[2]) % cols, cols)} :
        i \in 1..NCells(rows, cols), d \in {<<-1, 0>>, <<1, 0>>, <<0, -1>>, <<0, 1>>} }

\* DiffusionFactor.to_interaction_groups: every edge (a, b) is listed with
\* head a, tail b and with head b, tail a; a self-loop is listed twice for
\* its one cell.  NeighbourCount(i, j) is how often j is a neighbour of i.
NeighbourCount(rows, cols, i, j) ==
    IF {i, j} \in Edges(rows, cols) THEN (IF i = j THEN 2 ELSE 1) ELSE 0

RECURSIVE SumOver(_, _)
SumOver(f, S) ==
    IF S = {} THEN 0
    ELSE LET x == CHOOSE y \in S : TRUE IN f[x] + SumOver(f, S \ {x})

-----------------------------------------------------------------------------
(* simulation.py: the sampler *)

\* jax.random.normal(key, shape): the generator is deterministic in its key.
\* The sample drawn for step i of a call keyed by seed, species sp, cell c,
\* in units of one standard deviation, is a fixed table of the model.
Normal(seed, i, sp, c) == ((seed * 5 + i * 3 + sp * 7 + c * 2) % 3) - 1

\* the interactions of cell c handed to the sampler: how often each cell j
\* is among its neighbour states (the `active` mask of its padded slots)
interactions(rows, cols, c) ==
    [j \in 1..NCells(rows, cols) |-> NeighbourCount(rows, cols, c, j)]

\* the Laplacian of GrayScottSampler.sample at cell c: the average of the
\* active neighbour states minus the cell's value
laplacian(cur, active, c) ==
    LET n == Len(cur)
        neighbor_sum == SumOver([j \in 1..n |-> active[j] * cur[j]], 1..n)
        neighbor_count == SumOver(active, 1..n)
        avg_neighbor == IF neighbor_count > 0
                        THEN neighbor_sum \div neighbor_count
                        ELSE cur[c]
    IN  avg_neighbor - cur[c]

\* GrayScottSampler.sample: the new value of every cell of one species.
\* cur is the species being sampled, other the other species.
sample(is_u, cur, other, prm, rows, cols, seed, i) ==
    LET n == NCells(rows, cols)
    IN  [c \in 1..n |->
          LET active == interactions(rows, cols, c)
              lap == laplacian(cur, active, c)
              U == IF is_u THEN cur[c] ELSE other[c]
              V == IF is_u THEN other[c] ELSE cur[c]
              UVV == (U * V * V) \div (Scale * Scale)
              dU == (prm.Du * lap) \div Scale - UVV
                    + (prm.F * (Scale - U)) \div Scale
              dV == (prm.Dv * lap) \div Scale + UVV
                    - ((prm.F + prm.k) * V) \div Scale
              new_val == IF is_u THEN U + (prm.dt * dU) \div Scale
                                 ELSE V + (prm.dt * dV) \div Scale
              noise == Normal(seed, i, IF is_u THEN 0 ELSE 1, c) * prm.noise_level
              operands ==
                  {U, V, prm.F, prm.dt, prm.noise_level}
                  \cup (IF is_u THEN {prm.Du} ELSE {prm.Dv, prm.k})
                  \cup {cur[j] : j \in {x \in 1..n : active[x] > 0}}
          IN  IF NaN \in operands THEN NaN ELSE Clip(new_val + noise)]

\* One sweep of the sampling program over its two free blocks, block_u then
\* block_v: the second block is sampled given the first block's new values.
Sweep(prm, rows, cols, u, v, seed, i) ==
    LET u2 == sample(TRUE, u, v, prm, rows, cols, seed, i)
        v2 == sample(FALSE, v, u2, prm, rows, cols, seed, i)
    IN  [u |-> u2, v |-> v2]

\* sample_states(key, program, schedule, [current_u, current_v], ...) with
\* n_warmup = 0, n_samples = n, steps_per_sample = 1: the n successive states.
RECURSIVE SampleFrom(_, _, _, _, _, _, _, _)
SampleFrom(prm, rows, cols, u, v, seed, i, n) ==
    IF i > n THEN <<>>
    ELSE LET nxt == Sweep(prm, rows, cols, u, v, seed, i)
         IN  <<nxt>> \o SampleFrom(prm, rows, cols, nxt.u, nxt.v, seed, i + 1, n)

sample_states_keyed(s, key, n_steps) ==
    SampleFrom(s.sampler, s.rows, s.cols, s.current_u, s.current_v, key, 1, n_steps)

sample_states(s, n_steps) == sample_states_keyed(s, Len(s.history_u), n_steps)

-----------------------------------------------------------------------------
(* simulation.py: initial conditions *)

\* np.random.RandomState(42).uniform(-0.01, 0.01): the first draws of the
\* stream, in units of 1e-5.
Uniform42 ==
    <<-251, 901, 464, 197, -688, -688, -884, 732, 202, 416,
      -959, 940, 665, -575, -636, -633, -392, 50, -136, -418>>

Perturbation(k) == (Uniform42[k] * Scale + 50000) \div 100000

PatternNames == {"stripes", "center_square", "random", "spots"}

\* the cells a pattern sets to U = 0, V = 1 (0-based row and column)
Painted(rows, cols, pattern, r, c) ==
    CASE pattern = "center_square" ->
            /\ r \in PySlice(rows \div 2 - 5, rows \div 2 + 5, rows)
            /\ c \in PySlice(cols \div 2 - 5, cols \div 2 + 5, cols)
      [] pattern = "random" ->
            \* n_perturbations = (rows * cols) // 20 squares; none on the
            \* grids of the model, which have fewer than 20 cells
            FALSE
      [] pattern = "stripes" ->
            \E k \in 0..(cols \div 20) : c \in PySlice(20 * k, 20 * k + 3, cols)
      [] OTHER -> FALSE

create_initial_chemicals(rows, cols, pattern) ==
    LET n == NCells(rows, cols)
        on(i) == Painted(rows, cols, pattern, RowOf(i, cols), ColOf(i, cols))
    IN  [u |-> [i \in 1..n |-> Clip((IF on(i) THEN 0 ELSE Scale) + Perturbation(i))],
         v |-> [i \in 1..n |-> Clip((IF on(i) THEN Scale ELSE 0) + Perturbation(n + i))]]

-----------------------------------------------------------------------------
(* simulation.py: SimulationSession *)

\* An optional argument is <<>> (None, or omitted) or <<value>>.
None == <<>>

Some(x) == <<x>>

IsNone(o) == Len(o) = 0

DefaultParams ==
    [Du |-> Milli(160), Dv |-> Milli(80), F |-> Milli(55), k |-> Milli(62),
     dt |-> Milli(1000), noise_level |-> Milli(1)]

\* SimulationSession.__init__ validates nothing.  With a negative dimension
\* np.ones((rows, cols)) raises ValueError (create_initial_chemicals, line
\* 317).  With a zero dimension numpy builds empty arrays; whether the
\* sampling program can be built over empty blocks is decided by the thrml
\* library, so the constructor may return or raise.
SimulationSession_outcomes(rows, cols) ==
    IF rows < 0 \/ cols < 0 THEN {"raise"}
    ELSE IF rows = 0 \/ cols = 0 THEN {"return", "raise"}
    ELSE {"return"}

\* SimulationSession.__init__; sampler is the parameter set the samplers of
\* self.program were built with
SimulationSession(rows, cols) ==
    LET init == create_initial_chemicals(rows, cols, "stripes")
    IN  [rows |-> rows, cols |-> cols,
         params |-> DefaultParams, sampler |-> DefaultParams,
         history_u |-> <<init.u>>, history_v |-> <<init.v>>,
         current_u |-> init.u, current_v |-> init.v]

\* A method body is the sequence of its assignments to the session, in
\* source order.  One assignment: self.<f> = v, or self.<f>.append(v).
Set(f, v) == [f |-> f, op |-> "set", v |-> v]

Push(f, v) == [f |-> f, op |-> "append", v |-> v]

Assign(s, a) ==
    IF a.op = "append" THEN [s EXCEPT ![a.f] = Append(@, a.v)]
                       ELSE [s EXCEPT ![a.f] = a.v]

RECURSIVE RunBody(_, _)
RunBody(s, body) ==
    IF Len(body) = 0 THEN s ELSE RunBody(Assign(s, Head(body)), Tail(body))

\* an update that starts from the default parameters each time
update_params_body_defaults(s, kwargs) ==
    LET merged == [key \in DOMAIN DefaultParams |->
                      IF key \in DOMAIN kwargs THEN kwargs[key] ELSE DefaultParams[key]]
    IN  <<Set("params", merged), Set("sampler", merged)>>

\* update_params(**kwargs): kwargs is a function from some parameter names
update_params_body(s, kwargs) ==
    LET merged == [key \in DOMAIN s.params |->
                      IF key \in DOMAIN kwargs THEN kwargs[key] ELSE s.params[key]]
    IN  <<Set("params", merged), Set("sampler", merged)>>

update_params(s, kwargs) == RunBody(s, update_params_body(s, kwargs))

\* a reset that keeps the old entries and appends the new field
reset_body_append(s, pattern) ==
    LET init == create_initial_chemicals(s.rows, s.cols, pattern)
    IN  <<Push("history_u", init.u), Push("history_v", init.v),
          Set("current_u", init.u), Set("current_v", init.v)>>

\* a reset whose generator is not seeded: its draws continue after those of
\* the steps before
reset_body_unseeded(s, pattern) ==
    LET n == NCells(s.rows, s.cols)
        drawn == Len(s.history_u) - 1
        on(i) == Painted(s.rows, s.cols, pattern, RowOf(i, s.cols), ColOf(i, s.cols))
        u == [i \in 1..n |-> Clip((IF on(i) THEN 0 ELSE Scale) + Perturbation(drawn + i))]
        v == [i \in 1..n |-> Clip((IF on(i) THEN Scale ELSE 0) + Perturbation(drawn + n + i))]
    IN  <<Set("history_u", <<u>>), Set("history_v", <<v>>),
          Set("current_u", u), Set("current_v", v)>>

reset_body(s, pattern) ==
    LET init == create_initial_chemicals(s.rows, s.cols, pattern)
    IN  <<Set("history_u", <<init.u>>), Set("history_v", <<init.v>>),
          Set("current_u", init.u), Set("current_v", init.v)>>

reset(s, pattern) == RunBody(s, reset_body(s, pattern))

\* simulate_steps raises, before it has appended anything, when no sample
\* comes back: states[0][-1] of an empty result
simulate_steps_raises(n_steps) == n_steps < 1

\* a loop that stores only the final state of a batch
AppendStates_last(states, i) ==
    IF Len(states) = 0 THEN <<>>
    ELSE <<Push("history_u", states[Len(states)].u),
           Push("history_v", states[Len(states)].v)>>

RECURSIVE AppendStates(_, _)
AppendStates(states, i) ==
    IF i > Len(states) THEN <<>>
    ELSE <<Push("history_u", states[i].u), Push("history_v", states[i].v)>>
         \o AppendStates(states, i + 1)

\* a call whose key comes from the entropy of the process: any key
Keys_entropy(s) == {Len(s.history_u), Len(s.history_u) + 1}

\* key = jax.random.key(len(self.history_u)): the keys a call of
\* simulate_steps on s can sample with
Keys(s) == {Len(s.history_u)}

\* the body of simulate_steps(n_steps) once its key is made
simulate_steps_keyed(s, key, n_steps) ==
    IF simulate_steps_raises(n_steps) THEN <<>>
    ELSE LET states == sample_states_keyed(s, key, n_steps)
         IN  AppendStates(states, 1)
             \o <<Set("current_u", states[n_steps].u),
                  Set("current_v", states[n_steps].v)>>

simulate_steps_body(s, n_steps) == simulate_steps_keyed(s, Len(s.history_u), n_steps)

simulate_steps(s, n_steps) == RunBody(s, simulate_steps_body(s, n_steps))

\* a lookup that does not reject negative steps
get_state_nocheck(s, step_arg) ==
    LET step == IF IsNone(step_arg) THEN Len(s.history_v) - 1 ELSE step_arg[1]
    IN  IF step >= Len(s.history_v) \/ ~PyIndexOk(s.history_v, step)
        THEN None
        ELSE Some([step |-> step,
                   maxStep |-> Len(s.history_v) - 1,
                   u_grid |-> PyIndex(s.history_u, step),
                   v_grid |-> PyIndex(s.history_v, step),
                   rows |-> s.rows, cols |-> s.cols])

\* get_state(step): None, or the dict it returns, as <<>> or <<dict>>
get_state(s, step_arg) ==
    LET step == IF IsNone(step_arg) THEN Len(s.history_v) - 1 ELSE step_arg[1]
    IN  IF step < 0 \/ step >= Len(s.history_v)
        THEN None
        ELSE Some([step |-> step,
                   maxStep |-> Len(s.history_v) - 1,
                   u_grid |-> PyIndex(s.history_u, step),
                   v_grid |-> PyIndex(s.history_v, step),
                   rows |-> s.rows, cols |-> s.cols])

\* get_history_range(start, end, stride): range() raises ValueError on a zero
\* stride, history_v[i] raises IndexError when i < -len(history_v)
get_history_range(s, start, end_arg, stride) ==
    LET end == IF IsNone(end_arg) THEN Len(s.history_v) ELSE end_arg[1]
        idx == PyRange(start, Min(end, Len(s.history_v)), stride)
    IN  IF stride = 0
        THEN [raised |-> "ValueError", frames |-> <<>>]
        ELSE IF \E j \in 1..Len(idx) : ~PyIndexOk(s.history_v, idx[j])
        THEN [raised |-> "IndexError", frames |-> <<>>]
        ELSE [raised |-> "",
              frames |-> [j \in 1..Len(idx) |->
                             [step |-> idx[j],
                              v_grid |-> PyIndex(s.history_v, idx[j])]]]

\* a paint that is cut off at the edges of the grid
InBrush_nowrap(s, x, y, brush_size, i) ==
    \E dy \in (-brush_size)..brush_size, dx \in (-brush_size)..brush_size :
        /\ dx * dx + dy * dy <= brush_size * brush_size
        /\ x + dx = ColOf(i, s.cols)
        /\ y + dy = RowOf(i, s.cols)

\* the cells interact paints: ((y + dy) % rows, (x + dx) % cols) for the
\* offsets of the disk
InBrush(s, x, y, brush_size, i) ==
    \E dy \in (-brush_size)..brush_size, dx \in (-brush_size)..brush_size :
        /\ dx * dx + dy * dy <= brush_size * brush_size
        /\ (x + dx) % s.cols = ColOf(i, s.cols)
        /\ (y + dy) % s.rows = RowOf(i, s.cols)

\* a paint that rewrites the latest entry instead of appending one
interact_body_overwrite(s, x, y, brush_size) ==
    LET n == NCells(s.rows, s.cols)
        u == [i \in 1..n |-> IF InBrush(s, x, y, brush_size, i) THEN 0 ELSE s.current_u[i]]
        v == [i \in 1..n |-> IF InBrush(s, x, y, brush_size, i) THEN Scale ELSE s.current_v[i]]
        keep(h) == SubSeq(h, 1, Len(h) - 1)
    IN  <<Set("current_u", u), Set("current_v", v),
          Set("history_u", Append(keep(s.history_u), u)),
          Set("history_v", Append(keep(s.history_v), v))>>

\* a paint applied to the first entry of the history, not to the latest state
interact_body_rewind(s, x, y, brush_size) ==
    LET n == NCells(s.rows, s.cols)
        u == [i \in 1..n |-> IF InBrush(s, x, y, brush_size, i) THEN 0 ELSE s.history_u[1][i]]
        v == [i \in 1..n |-> IF InBrush(s, x, y, brush_size, i) THEN Scale ELSE s.history_v[1][i]]
    IN  <<Set("current_u", u), Set("current_v", v),
          Push("history_u", u), Push("history_v", v)>>

interact_body(s, x, y, brush_size) ==
    LET n == NCells(s.rows, s.cols)
        u == [i \in 1..n |-> IF InBrush(s, x, y, brush_size, i) THEN 0 ELSE s.current_u[i]]
        v == [i \in 1..n |-> IF InBrush(s, x, y, brush_size, i) THEN Scale ELSE s.current_v[i]]
    IN  <<Set("current_u", u), Set("current_v", v),
          Push("history_u", u), Push("history_v", v)>>

interact(s, x, y, brush_size) == RunBody(s, interact_body(s, x, y, brush_size))

\* (x + dx) % self.cols and (y + dy) % self.rows raise ZeroDivisionError on a
\* grid with a zero dimension, at the first offset inside the disk
interact_raises(s, brush_size) == (s.rows = 0 \/ s.cols = 0) /\ brush_size >= 0

-----------------------------------------------------------------------------
(* Threads *)

\* request-handling threads (Flask runs threaded = True)
Clients == {"c1", "c2"}

\* slots for background_simulator threads
BgSlots == {"b1", "b2"}

Threads == Clients \cup BgSlots

\* a thread: where it is (pc), the handler it runs (op), what is left of the
\* body of its `with` block (todo), how much of it is done, its argument,
\* its local variables, and the length the history had when it took the lock
Idle ==
    [pc |-> "idle", op |-> "", todo |-> <<>>, done |-> 0, arg |-> 0, loc |-> <<>>,
     held |-> 0]

NoThread ==
    [pc |-> "none", op |-> "", todo |-> <<>>, done |-> 0, arg |-> 0, loc |-> <<>>,
     held |-> 0]

At(t, pc) == thr[t].pc = pc

Live == Len(session) = 1

S == session[1]

\* a handler that enters its body without taking the lock
CanAcquire_NoLock == TRUE

\* `with session_lock:` blocks until the lock is free
CanAcquire == session_lock = "free"

\* entering the `with` block of a handler whose body is `body`
Enter(t, op, body, arg) ==
    /\ CanAcquire
    /\ session_lock' = t
    /\ thr' = [thr EXCEPT ![t] = [pc |-> "body", op |-> op, todo |-> body,
                                  done |-> 0, arg |-> arg, loc |-> @.loc,
                                  held |-> IF Live THEN Len(S.history_v) ELSE 0]]
    /\ UNCHANGED <<dual_globals, program, twin, session, simulation_running, ghost, last>>

\* the next assignment of the body of thread t
BodyStep(t) ==
    /\ At(t, "body")
    /\ Len(thr[t].todo) > 0
    /\ LET a == Head(thr[t].todo)
       IN  session' = IF a.f = "session" THEN Some(a.v) ELSE Some(Assign(S, a))
    /\ thr' = [thr EXCEPT ![t].todo = Tail(@), ![t].done = @ + 1]
    /\ UNCHANGED <<dual_globals, program, twin, session_lock, simulation_running, ghost, last>>

\* leaving a block without releasing its lock
Leave_keep(t, after) ==
    /\ At(t, "body")
    /\ Len(thr[t].todo) = 0
    /\ thr' = [thr EXCEPT ![t] = after]
    /\ UNCHANGED <<dual_globals, program, twin, session, session_lock, simulation_running, last>>

\* leaving the `with` block: the lock is released
Leave(t, after) ==
    /\ At(t, "body")
    /\ Len(thr[t].todo) = 0
    /\ session_lock' = "free"
    /\ thr' = [thr EXCEPT ![t] = after]
    /\ UNCHANGED <<dual_globals, program, twin, session, simulation_running, last>>

\* `if not session: return error` inside the `with` block
NoActiveSession(t) ==
    /\ At(t, "idle")
    /\ CanAcquire
    /\ ~Live
    /\ UNCHANGED vars

-----------------------------------------------------------------------------
(* Inputs of the requests to the running server *)

\* (rows, cols) of /api/init
ConcDims == {<<1, 4>>}

\* steps of /api/simulate
StepCounts == {0, 1, 2}

\* (x, y, brushSize) of /api/interact
ConcBrush == {<<3, 1, 0>>}

\* bodies of /api/params
ConcParams == {[F |-> Milli(30)]}

\* pattern of /api/reset
ConcPatterns == {"stripes", "center_square"}

\* room left in the history for n more entries
Room(n) == Len(S.history_v) + n <= MaxHist

\* calls since the last init or reset: N steps simulated, m interact calls
Ghost0 == [N |-> 0, m |-> 0]

-----------------------------------------------------------------------------
(* dual_server.py: the globals and the native stepper *)

\* the module as imported
NativeModule ==
    [U_native |-> None, V_native |-> None, U_next |-> None, V_next |-> None,
     native_history |-> <<>>]

StatusInit ==
    [thrml_step |-> 0, native_step |-> 0, target |-> TARGET_STEPS,
     running |-> FALSE, complete |-> FALSE]

ParamsInit ==
    [Du |-> Milli(160), Dv |-> Milli(80), F |-> Milli(55), k |-> Milli(62),
     dt |-> Milli(1000)]

\* init_native_simulation: its assignments to the globals, in source order.
\* The stripes loop runs over x = 0, 20, 40, ...; arrays are changed in place.
init_native_simulation_body ==
    LET n == NCells(ROWS, COLS)
        xs == PyRange(0, COLS, 20)
        stripe(i) == \E j \in 1..Len(xs) : ColOf(i, COLS) \in PySlice(xs[j], xs[j] + 3, COLS)
        ones == [i \in 1..n |-> Scale]
        zeros == [i \in 1..n |-> 0]
        U0 == [i \in 1..n |-> IF stripe(i) THEN 0 ELSE Scale]
        V0 == [i \in 1..n |-> IF stripe(i) THEN Scale ELSE 0]
        U1 == [i \in 1..n |-> U0[i] + Perturbation(i)]
        V1 == [i \in 1..n |-> V0[i] + Perturbation(n + i)]
        U2 == [i \in 1..n |-> Clip(U1[i])]
        V2 == [i \in 1..n |-> Clip(V1[i])]
    IN  <<Set("U_native", ones), Set("V_native", zeros),
          Set("U_next", zeros), Set("V_next", zeros),
          Set("U_native", U0), Set("V_native", V0),
          Set("U_native", U1), Set("V_native", V1),
          Set("U_native", U2), Set("V_native", V2),
          Set("native_history", <<V2>>)>>

init_native_simulation == RunBody(NativeModule, init_native_simulation_body)

\* laplacian_native: np.roll along both axes, periodic
laplacian_native(arr) ==
    [i \in 1..NCells(ROWS, COLS) |->
        LET r == RowOf(i, COLS)
            c == ColOf(i, COLS)
        IN  arr[Idx((r - 1) % ROWS, c, COLS)] + arr[Idx((r + 1) % ROWS, c, COLS)]
            + arr[Idx(r, (c - 1) % COLS, COLS)] + arr[Idx(r, (c + 1) % COLS, COLS)]
            - 4 * arr[i]]

\* step_native, lines 92-95: the locals lap_U, lap_V and uvv
step_native_locals(nat) ==
    [lap_U |-> laplacian_native(nat.U_native),
     lap_V |-> laplacian_native(nat.V_native),
     uvv |-> [i \in 1..NCells(ROWS, COLS) |->
                 (nat.U_native[i] * nat.V_native[i] * nat.V_native[i]) \div (Scale * Scale)]]

\* step_native, lines 97-102: U_next and V_next
step_native_next(nat, prm, l) ==
    [nat EXCEPT
        !.U_next = [i \in 1..NCells(ROWS, COLS) |->
            IF NaN \in {prm.dt, prm.Du, prm.F, nat.U_native[i], l.lap_U[i], l.uvv[i]}
            THEN NaN ELSE
            nat.U_native[i]
            + (prm.dt * ((prm.Du * l.lap_U[i]) \div Scale - l.uvv[i]
                         + (prm.F * (Scale - nat.U_native[i])) \div Scale)) \div Scale],
        !.V_next = [i \in 1..NCells(ROWS, COLS) |->
            IF NaN \in {prm.dt, prm.Dv, prm.F, prm.k, nat.V_native[i], l.lap_V[i], l.uvv[i]}
            THEN NaN ELSE
            nat.V_native[i]
            + (prm.dt * ((prm.Dv * l.lap_V[i]) \div Scale + l.uvv[i]
                         - ((prm.F + prm.k) * nat.V_native[i]) \div Scale)) \div Scale]]

\* step_native, lines 104-105
step_native_clip(nat) ==
    [nat EXCEPT !.U_native = [i \in 1..NCells(ROWS, COLS) |-> Clip(nat.U_next[i])],
                !.V_native = [i \in 1..NCells(ROWS, COLS) |-> Clip(nat.V_next[i])]]

\* step_native, line 108
step_native_append(nat) ==
    [nat EXCEPT !.native_history = Append(@, nat.V_native)]

\* run_batch_simulation: the number of sub-batches and the steps of one
batches(n_steps) == (n_steps + batch_size - 1) \div batch_size

\* a sub-batch of one step, whatever was asked for
steps_this_batch_one(n_steps, batch) == 1

steps_this_batch(n_steps, batch) == Min(batch_size, n_steps - batch * batch_size)

-----------------------------------------------------------------------------
(* server.py *)

\* a handler that builds the thread and never starts it
StartThread_none(c) ==
    thr' = [thr EXCEPT ![c] = Idle]

\* threading.Thread(target=background_simulator).start(), by thread c
StartThread(c) ==
    /\ \E b \in BgSlots : At(b, "none")
    /\ LET b == CHOOSE x \in BgSlots : At(x, "none")
       IN  thr' = [thr EXCEPT ![b] = [NoThread EXCEPT !.pc = "while"], ![c] = Idle]

\* POST /api/init
init_simulation(c) ==
    \/ /\ At(c, "idle")
       /\ \E d \in ConcDims :
            Enter(c, "init", <<Set("session", SimulationSession(d[1], d[2]))>>, 0)
    \/ /\ thr[c].op = "init"
       /\ BodyStep(c)
    \/ /\ thr[c].op = "init"
       /\ Leave(c, [Idle EXCEPT !.pc = "init_check", !.op = "init"])
       /\ ghost' = Ghost0
    \/ /\ At(c, "init_check")
       /\ thr' = [thr EXCEPT ![c] = IF simulation_running THEN Idle
                                    ELSE [@ EXCEPT !.pc = "init_set"]]
       /\ UNCHANGED <<dual_globals, program, twin, session, session_lock, simulation_running, ghost, last>>
    \/ /\ At(c, "init_set")
       /\ simulation_running' = TRUE
       /\ thr' = [thr EXCEPT ![c].pc = "init_start"]
       /\ UNCHANGED <<dual_globals, program, twin, session, session_lock, ghost, last>>
    \/ /\ At(c, "init_start")
       /\ StartThread(c)
       /\ UNCHANGED <<dual_globals, program, twin, session, session_lock, simulation_running, ghost, last>>

\* GET /api/state
api_get_state(c) ==
    \/ NoActiveSession(c)
    \/ /\ At(c, "idle") /\ Live
       /\ Enter(c, "state", <<>>, 0)
    \/ /\ thr[c].op = "state"
       /\ Leave(c, Idle)
       /\ UNCHANGED ghost

\* POST /api/params
api_update_params(c) ==
    \/ NoActiveSession(c)
    \/ /\ At(c, "idle") /\ Live
       /\ \E kw \in ConcParams : Enter(c, "params", update_params_body(S, kw), 0)
    \/ /\ thr[c].op = "params"
       /\ BodyStep(c)
    \/ /\ thr[c].op = "params"
       /\ Leave(c, Idle)
       /\ UNCHANGED ghost

\* POST /api/reset
reset_simulation(c) ==
    \/ NoActiveSession(c)
    \/ /\ At(c, "idle") /\ Live
       /\ \E pattern \in ConcPatterns : Enter(c, "reset", reset_body(S, pattern), 0)
    \/ /\ thr[c].op = "reset"
       /\ BodyStep(c)
    \/ /\ thr[c].op = "reset"
       /\ Leave(c, Idle)
       /\ ghost' = Ghost0

\* POST /api/interact
api_interact(c) ==
    \/ NoActiveSession(c)
    \/ /\ At(c, "idle") /\ Live /\ Room(1)
       /\ \E b \in ConcBrush : Enter(c, "interact", interact_body(S, b[1], b[2], b[3]), 0)
    \/ /\ thr[c].op = "interact"
       /\ BodyStep(c)
    \/ /\ thr[c].op = "interact"
       /\ Leave(c, Idle)
       /\ ghost' = [ghost EXCEPT !.m = @ + 1]

\* GET /api/history
get_history(c) ==
    \/ NoActiveSession(c)
    \/ /\ At(c, "idle") /\ Live
       /\ Enter(c, "history", <<>>, 0)
    \/ /\ thr[c].op = "history"
       /\ Leave(c, Idle)
       /\ UNCHANGED ghost

\* POST /api/simulate; an exception raised in the body leaves the `with`
\* block, which releases the lock
simulate(c) ==
    \/ NoActiveSession(c)
    \/ /\ At(c, "idle") /\ Live
       /\ \E n \in StepCounts :
            /\ Room(n)
            /\ Enter(c, "simulate", simulate_steps_body(S, n), n)
    \/ /\ thr[c].op = "simulate"
       /\ BodyStep(c)
    \/ /\ thr[c].op = "simulate"
       /\ Leave(c, Idle)
       /\ ghost' = IF simulate_steps_raises(thr[c].arg) THEN ghost
                   ELSE [ghost EXCEPT !.N = @ + thr[c].arg]

\* POST /api/pause
pause_simulation(c) ==
    /\ At(c, "idle")
    /\ simulation_running' = FALSE
    /\ UNCHANGED <<dual_globals, program, twin, session, session_lock, thr, ghost, last>>

\* POST /api/resume
resume_simulation(c) ==
    \/ /\ At(c, "idle")
       /\ thr' = [thr EXCEPT ![c] = IF simulation_running THEN Idle
                                    ELSE [Idle EXCEPT !.pc = "resume_set", !.op = "resume"]]
       /\ UNCHANGED <<dual_globals, program, twin, session, session_lock, simulation_running, ghost, last>>
    \/ /\ At(c, "resume_set")
       /\ simulation_running' = TRUE
       /\ thr' = [thr EXCEPT ![c].pc = "resume_start"]
       /\ UNCHANGED <<dual_globals, program, twin, session, session_lock, ghost, last>>
    \/ /\ At(c, "resume_start")
       /\ StartThread(c)
       /\ UNCHANGED <<dual_globals, program, twin, session, session_lock, simulation_running, ghost, last>>

\* the loop of a background thread: test the flag, step under the lock,
\* sleep, test again
background_simulator(b) ==
    \/ /\ At(b, "while")
       /\ thr' = [thr EXCEPT ![b] = IF simulation_running
                                    THEN [NoThread EXCEPT !.pc = "with"]
                                    ELSE NoThread]
       /\ UNCHANGED <<dual_globals, program, twin, session, session_lock, simulation_running, ghost, last>>
    \/ /\ At(b, "with")
       /\ IF Live
          THEN Room(1) /\ Enter(b, "tick", simulate_steps_body(S, 1), 1)
          ELSE Enter(b, "tick", <<>>, 0)
    \/ /\ thr[b].op = "tick"
       /\ BodyStep(b)
    \/ /\ thr[b].op = "tick"
       /\ Leave(b, [NoThread EXCEPT !.pc = "while"])
       /\ ghost' = [ghost EXCEPT !.N = @ + thr[b].arg]

\* what a reset or an interact found: the length of the history, when the
\* call before it was a get_state that returned an entry, its step, and
\* whether the call before it was the same call, served
NoBefore == [len |-> 0, viewed |-> None, again |-> FALSE]

NoCall == [op |-> "", args |-> <<>>, result |-> <<>>, before |-> NoBefore]

\* the module as imported (no session, nothing running), or as run by
\* __main__ (a session, the flag set and one background thread started)
InitServer ==
    /\ program = "server"
    /\ twin = None
    /\ native = NativeModule
    /\ simulation_status = StatusInit
    /\ params = ParamsInit
    /\ session_lock = "free"
    /\ ghost = Ghost0
    /\ last = NoCall
    /\ \/ /\ session = None
          /\ simulation_running = FALSE
          /\ thr = [t \in Threads |-> IF t \in Clients THEN Idle ELSE NoThread]
       \/ /\ \E d \in ConcDims : session = Some(SimulationSession(d[1], d[2]))
          /\ simulation_running = TRUE
          /\ thr = [t \in Threads |->
                      IF t \in Clients THEN Idle
                      ELSE IF t = "b1" THEN [NoThread EXCEPT !.pc = "while"]
                      ELSE NoThread]

NextServer ==
    \/ \E c \in Clients : init_simulation(c)
    \/ \E c \in Clients : api_get_state(c)
    \/ \E c \in Clients : api_update_params(c)
    \/ \E c \in Clients : reset_simulation(c)
    \/ \E c \in Clients : api_interact(c)
    \/ \E c \in Clients : get_history(c)
    \/ \E c \in Clients : simulate(c)
    \/ \E c \in Clients : pause_simulation(c)
    \/ \E c \in Clients : resume_simulation(c)
    \/ \E b \in BgSlots : background_simulator(b)

Spec == InitServer /\ [][NextServer]_vars

\* the running server with its background threads and the requests of one
\* client at a time
FairClients == {"c1"}

\* the steps of a request of client c that is inside its `with` block: the
\* body of a handler runs to its end and releases the lock
InBlock(c) ==
    /\ At(c, "body")
    /\ \/ init_simulation(c)
       \/ api_get_state(c)
       \/ api_update_params(c)
       \/ reset_simulation(c)
       \/ api_interact(c)
       \/ get_history(c)
       \/ simulate(c)

\* the scheduling of the threads: a handler inside its block goes on, a
\* background thread goes on, and the lock is fair: a background thread
\* that finds the lock free again and again acquires it in the end
Fairness ==
    /\ \A c \in FairClients : WF_vars(InBlock(c))
    /\ \A b \in BgSlots : SF_vars(background_simulator(b))

\* the server while its scheduler runs: the requests that use the session
\* (pause and resume take no lock), and the background loop
NextFair ==
    \/ \E c \in FairClients : init_simulation(c)
    \/ \E c \in FairClients : api_get_state(c)
    \/ \E c \in FairClients : api_update_params(c)
    \/ \E c \in FairClients : reset_simulation(c)
    \/ \E c \in FairClients : api_interact(c)
    \/ \E c \in FairClients : get_history(c)
    \/ \E c \in FairClients : simulate(c)
    \/ \E b \in BgSlots : background_simulator(b)

SpecFair == InitServer /\ [][NextFair]_vars /\ Fairness

-----------------------------------------------------------------------------
(* server.py: the handlers served one request at a time, with their         *)
(* responses.  Every handler touches the session only inside its `with`    *)
(* block, so this is the order in which the running server applies them.   *)

\* (rows, cols) of /api/init
DimSet == {<<1, 4>>, <<2, 2>>, <<0, 4>>, <<-1, 4>>}

\* (x, y, brushSize) of /api/interact
BrushSet == {<<-1, 1, 0>>, <<0, 0, 1>>}

\* step of /api/state: omitted, or an int
StepArgs == {None} \cup {Some(i) : i \in (-1)..MaxHist}

\* start, end and stride of /api/history
StartArgs == {-(MaxHist + 1), -1, 0, 1, 2}

EndArgs == {None, Some(1), Some(MaxHist + 1)}

StrideArgs == (-1)..2

\* bodies of /api/params: the handler passes on F, k, Du and Dv as floats
ParamArgs == {[F |-> Milli(30)], [k |-> Milli(50), Du |-> Milli(100)], [F |-> NaN]}

\* steps of /api/simulate
StepCountArgs == (-1)..2

\* a response: the HTTP status, the error text, the payload
Response(status, error, data) == [status |-> status, error |-> error, data |-> data]

\* one request served: the call and its response are recorded
Serve(op, args, result, sess) ==
    /\ program = "api"
    /\ last' = [op |-> op, args |-> args, result |-> result,
                before |-> IF Live /\ op \in {"reset", "interact"}
                           THEN [len |-> Len(S.history_v),
                                 viewed |-> IF last.op = "state" /\ last.result.status = 200
                                            THEN Some(last.result.data[1].step)
                                            ELSE None,
                                 again |-> /\ last.op = op
                                           /\ last.args = args
                                           /\ last.result.status = 200]
                           ELSE NoBefore]
    /\ session' = sess
    /\ UNCHANGED <<dual_globals, program, twin, session_lock, simulation_running, thr>>

\* a handler that answers on a default session when there is none
Refused_default(op, args) ==
    /\ ~Live
    /\ Serve(op, args, Response(200, "", <<>>), Some(SimulationSession(1, 4)))
    /\ UNCHANGED ghost

\* `if not session: return jsonify({'error': 'No active session'}), 400`
Refused(op, args) ==
    /\ ~Live
    /\ Serve(op, args, Response(400, "No active session", <<>>), session)
    /\ UNCHANGED ghost

\* an exception raised by the constructor leaves `session` as it was and is
\* answered with status 500
req_init ==
    \E d \in DimSet :
        \/ /\ "return" \in SimulationSession_outcomes(d[1], d[2])
           /\ Serve("init", d, Response(200, "", <<>>),
                    Some(SimulationSession(d[1], d[2])))
           /\ ghost' = Ghost0
        \/ /\ "raise" \in SimulationSession_outcomes(d[1], d[2])
           /\ Serve("init", d, Response(500, "Exception", <<>>), session)
           /\ UNCHANGED ghost

req_state ==
    \E step \in StepArgs :
        \/ Refused("state", <<step>>)
        \/ /\ Live
           /\ LET state == get_state(S, step)
              IN  Serve("state", <<step>>,
                        IF IsNone(state) THEN Response(400, "Invalid step", <<>>)
                                         ELSE Response(200, "", state),
                        session)
           /\ UNCHANGED ghost

req_params ==
    \E kw \in ParamArgs :
        \/ Refused("params", <<kw>>)
        \/ /\ Live
           /\ Serve("params", <<kw>>, Response(200, "", <<kw>>), Some(update_params(S, kw)))
           /\ UNCHANGED ghost

req_reset ==
    \E pattern \in PatternNames :
        \/ Refused("reset", <<pattern>>)
        \/ /\ Live
           /\ Serve("reset", <<pattern>>, Response(200, "", <<>>), Some(reset(S, pattern)))
           /\ ghost' = Ghost0

req_interact ==
    \E b \in BrushSet :
        \/ Refused("interact", b)
        \/ /\ Live /\ Room(1)
           /\ IF interact_raises(S, b[3])
              THEN /\ Serve("interact", b, Response(500, "ZeroDivisionError", <<>>), session)
                   /\ UNCHANGED ghost
              ELSE /\ Serve("interact", b, Response(200, "", <<>>),
                            Some(interact(S, b[1], b[2], b[3])))
                   /\ ghost' = [ghost EXCEPT !.m = @ + 1]

\* an exception raised by the session method is not caught by the handler:
\* the request is answered with status 500
req_history ==
    \E start \in StartArgs, end \in EndArgs, stride \in StrideArgs :
        \/ Refused("history", <<start, end, stride>>)
        \/ /\ Live
           /\ LET r == get_history_range(S, start, end, stride)
              IN  Serve("history", <<start, end, stride>>,
                        IF r.raised = "" THEN Response(200, "", r.frames)
                                         ELSE Response(500, r.raised, <<>>),
                        session)
           /\ UNCHANGED ghost

\* whether sample_states runs over empty blocks is decided by the thrml library
sample_states_outcomes(s) ==
    IF NCells(s.rows, s.cols) = 0 THEN {"return", "raise"} ELSE {"return"}

req_simulate ==
    \E n \in StepCountArgs :
        \/ Refused("simulate", <<n>>)
        \/ /\ Live /\ Room(n)
           /\ "raise" \in sample_states_outcomes(S)
           /\ Serve("simulate", <<n>>, Response(500, "Exception", <<>>), session)
           /\ UNCHANGED ghost
        \/ /\ Live /\ Room(n)
           /\ IF simulate_steps_raises(n)
              THEN /\ Serve("simulate", <<n>>, Response(500, "IndexError", <<>>), session)
                   /\ UNCHANGED ghost
              ELSE /\ Serve("simulate", <<n>>,
                            Response(200, "", <<Len(simulate_steps(S, n).history_v) - 1>>),
                            Some(simulate_steps(S, n)))
                   /\ ghost' = [ghost EXCEPT !.N = @ + n]

InitApi ==
    /\ program = "api"
    /\ twin = None
    /\ native = NativeModule
    /\ simulation_status = StatusInit
    /\ params = ParamsInit
    /\ session = None
    /\ session_lock = "free"
    /\ simulation_running = FALSE
    /\ thr = [t \in Threads |-> IF t \in Clients THEN Idle ELSE NoThread]
    /\ ghost = Ghost0
    /\ last = NoCall

NextApi ==
    \/ req_init
    \/ req_state
    \/ req_params
    \/ req_reset
    \/ req_interact
    \/ req_history
    \/ req_simulate

SpecApi == InitApi /\ [][NextApi]_vars

-----------------------------------------------------------------------------
(* dual_server.py: the comparison server *)

\* steps of /api/run
RunSteps == {1, 2}

\* the request-handling threads of the comparison server that are used
DualClients == {"c1"}

\* the locals of a batch thread: run_batch_simulation's n_steps, batch,
\* steps_this_batch and loop counter, and whether the thread's target is
\* auto_run_to_target
Worker(n_steps, auto) ==
    [n_steps |-> n_steps, batch |-> 0, steps |-> 0, i |-> 0, auto |-> auto]

\* threading.Thread(target=...).start(), by thread c
StartWorker(c, n_steps, auto) ==
    /\ \E b \in BgSlots : At(b, "none")
    /\ LET b == CHOOSE x \in BgSlots : At(x, "none")
       IN  thr' = [thr EXCEPT
                     ![b] = [NoThread EXCEPT !.pc = IF auto THEN "auto_start" ELSE "for_batch",
                                             !.op = "batch",
                                             !.loc = Worker(n_steps, auto)],
                     ![c] = Idle]

\* the model asks for at most MaxRunSteps steps, in at most MaxRequests
\* requests: ghost.N is the steps asked for, ghost.m the requests made
Budget(n) == ghost.N + n <= MaxRunSteps /\ ghost.m < MaxRequests

Asked(n) == [ghost EXCEPT !.N = @ + n, !.m = @ + 1]

\* step_native(), called by thread b without the lock, in two steps: the
\* new grids are computed into U_next and V_next (lines 92-102), then
\* clipped into U_native and V_native and appended (lines 104-108)
step_native(b) ==
    \/ /\ At(b, "step_native")
       /\ native' = step_native_next(native, params, step_native_locals(native))
       /\ thr' = [thr EXCEPT ![b].pc = "step_clip"]
       /\ UNCHANGED <<program, twin, session, session_lock, simulation_running, ghost, last,
                      simulation_status, params>>
    \/ /\ At(b, "step_clip")
       /\ native' = step_native_append(step_native_clip(native))
       /\ thr' = [thr EXCEPT ![b].pc = "native_status"]
       /\ UNCHANGED <<program, twin, session, session_lock, simulation_running, ghost, last,
                      simulation_status, params>>

\* the thread body run_batch_simulation(n_steps): the two loops, the calls
\* of step_native, and the `with` block.  Every other access to the session
\* is made under the lock too, so the block's body is taken in one step.
run_batch_simulation(b) ==
    \/ /\ At(b, "for_batch")
       /\ thr' = [thr EXCEPT ![b] =
                    IF @.loc.batch < batches(@.loc.n_steps)
                    THEN [@ EXCEPT !.pc = "step_native",
                                   !.loc.steps = steps_this_batch(thr[b].loc.n_steps,
                                                                  thr[b].loc.batch),
                                   !.loc.i = 0]
                    ELSE IF @.loc.auto THEN [@ EXCEPT !.pc = "auto_end"]
                    ELSE NoThread]
       /\ UNCHANGED <<program, twin, session, session_lock, simulation_running, ghost, last,
                      dual_globals>>
    \/ /\ At(b, "native_status")
       /\ simulation_status' = [simulation_status EXCEPT
                                  !.native_step = Len(native.native_history) - 1]
       /\ thr' = [thr EXCEPT ![b].pc = IF thr[b].loc.i + 1 < thr[b].loc.steps
                                       THEN "step_native" ELSE "with",
                             ![b].loc.i = @ + 1]
       /\ UNCHANGED <<program, twin, session, session_lock, simulation_running, ghost, last,
                      native, params>>
    \/ /\ At(b, "with")
       /\ CanAcquire
       /\ session_lock' = b
       /\ session' = Some(simulate_steps(S, thr[b].loc.steps))
       /\ thr' = [thr EXCEPT ![b].pc = "body", ![b].held = Len(S.history_v)]
       /\ UNCHANGED <<program, twin, simulation_running, ghost, last, dual_globals>>
    \/ /\ At(b, "body")
       /\ simulation_status' = [simulation_status EXCEPT
                                  !.thrml_step = Len(S.history_v) - 1]
       /\ session_lock' = "free"
       /\ thr' = [thr EXCEPT ![b].pc = "for_batch", ![b].held = 0, ![b].loc.batch = @ + 1]
       /\ UNCHANGED <<program, twin, session, simulation_running, ghost, last, native, params>>

\* the thread body auto_run_to_target(), around run_batch_simulation
auto_run_to_target(b) ==
    \/ /\ At(b, "auto_start")
       /\ simulation_status' = [simulation_status EXCEPT !.running = TRUE]
       /\ thr' = [thr EXCEPT ![b].pc = "for_batch"]
       /\ UNCHANGED <<program, twin, session, session_lock, simulation_running, ghost, last,
                      native, params>>
    \/ /\ At(b, "auto_end")
       /\ simulation_status' = [simulation_status EXCEPT !.running = FALSE]
       /\ thr' = [thr EXCEPT ![b].pc = "auto_complete"]
       /\ UNCHANGED <<program, twin, session, session_lock, simulation_running, ghost, last,
                      native, params>>
    \/ /\ At(b, "auto_complete")
       /\ simulation_status' = [simulation_status EXCEPT !.complete = TRUE]
       /\ thr' = [thr EXCEPT ![b] = NoThread]
       /\ UNCHANGED <<program, twin, session, session_lock, simulation_running, ghost, last,
                      native, params>>

\* GET /api/status
get_status(c) ==
    \/ /\ At(c, "idle")
       /\ Enter(c, "status", <<>>, 0)
    \/ /\ thr[c].op = "status"
       /\ Leave(c, Idle)
       /\ UNCHANGED ghost

\* GET /api/thrml/state
get_thrml_state(c) ==
    \/ /\ At(c, "idle")
       /\ Enter(c, "state", <<>>, 0)
    \/ /\ thr[c].op = "state"
       /\ Leave(c, Idle)
       /\ UNCHANGED ghost

\* GET /api/native/state: reads native_history without the lock
get_native_state(c) ==
    /\ At(c, "idle")
    /\ UNCHANGED vars

\* POST /api/run
run_simulation(c) ==
    \/ /\ At(c, "idle")
       /\ \E steps \in RunSteps :
            /\ Budget(steps)
            /\ thr' = [thr EXCEPT ![c] =
                         IF simulation_status.running THEN Idle
                         ELSE [Idle EXCEPT !.pc = "run_start", !.op = "run", !.arg = steps]]
            /\ ghost' = Asked(steps)
       /\ UNCHANGED <<program, twin, session, session_lock, simulation_running, last,
                      dual_globals>>
    \/ /\ At(c, "run_start")
       /\ StartWorker(c, thr[c].arg, FALSE)
       /\ UNCHANGED <<program, twin, session, session_lock, simulation_running, ghost, last,
                      dual_globals>>

\* POST /api/run-to-target
run_to_target(c) ==
    \/ /\ At(c, "idle")
       /\ Budget(TARGET_STEPS)
       /\ thr' = [thr EXCEPT ![c] =
                    IF simulation_status.running \/ simulation_status.complete THEN Idle
                    ELSE [Idle EXCEPT !.pc = "target_start", !.op = "target"]]
       /\ ghost' = Asked(TARGET_STEPS)
       /\ UNCHANGED <<program, twin, session, session_lock, simulation_running, last,
                      dual_globals>>
    \/ /\ At(c, "target_start")
       /\ StartWorker(c, TARGET_STEPS, TRUE)
       /\ UNCHANGED <<program, twin, session, session_lock, simulation_running, ghost, last,
                      dual_globals>>

\* POST /api/reset
reset_both(c) ==
    \/ /\ At(c, "idle")
       /\ Budget(0)
       /\ thr' = [thr EXCEPT ![c] =
                    IF simulation_status.running THEN Idle
                    ELSE [Idle EXCEPT !.pc = "reset_with", !.op = "reset_both"]]
       /\ ghost' = Asked(0)
       /\ UNCHANGED <<program, twin, session, session_lock, simulation_running, last,
                      dual_globals>>
    \/ /\ At(c, "reset_with")
       /\ Enter(c, "reset_both", <<Set("session", SimulationSession(ROWS, COLS))>>, 0)
    \/ /\ thr[c].op = "reset_both"
       /\ BodyStep(c)
    \/ /\ thr[c].op = "reset_both"
       /\ At(c, "body")
       /\ Len(thr[c].todo) = 0
       /\ thr' = [thr EXCEPT ![c].pc = "init_native", ![c].todo = init_native_simulation_body]
       /\ UNCHANGED <<program, twin, session, session_lock, simulation_running, ghost, last,
                      dual_globals>>
    \/ /\ At(c, "init_native")
       /\ Len(thr[c].todo) > 0
       /\ native' = Assign(native, Head(thr[c].todo))
       /\ thr' = [thr EXCEPT ![c].todo = Tail(@)]
       /\ UNCHANGED <<program, twin, session, session_lock, simulation_running, ghost, last,
                      simulation_status, params>>
    \/ /\ At(c, "init_native")
       /\ Len(thr[c].todo) = 0
       /\ simulation_status' = StatusInit
       /\ session_lock' = "free"
       /\ thr' = [thr EXCEPT ![c] = Idle]
       /\ UNCHANGED <<program, twin, session, simulation_running, ghost, last, native, params>>

\* POST /api/params
dual_update_params(c) ==
    \/ /\ At(c, "idle")
       /\ Budget(0)
       /\ \E data \in ConcParams :
            params' = [key \in DOMAIN params |->
                         IF key \in DOMAIN data THEN data[key] ELSE params[key]]
       /\ thr' = [thr EXCEPT ![c] = [Idle EXCEPT !.pc = "params_with", !.op = "params"]]
       /\ ghost' = Asked(0)
       /\ UNCHANGED <<program, twin, session, session_lock, simulation_running, last,
                      native, simulation_status>>
    \/ /\ At(c, "params_with")
       /\ Enter(c, "params", update_params_body(S, params), 0)
    \/ /\ thr[c].op = "params"
       /\ BodyStep(c)
    \/ /\ thr[c].op = "params"
       /\ Leave(c, Idle)
       /\ UNCHANGED ghost

\* the comparison server as run by __main__: both simulations initialised
\* and the run to TARGET_STEPS started
InitDual ==
    /\ program = "dual"
    /\ twin = None
    /\ session = Some(SimulationSession(ROWS, COLS))
    /\ session_lock = "free"
    /\ simulation_running = FALSE
    /\ native = init_native_simulation
    /\ simulation_status = StatusInit
    /\ params = ParamsInit
    /\ ghost = [Ghost0 EXCEPT !.N = TARGET_STEPS]
    /\ last = NoCall
    /\ thr = [t \in Threads |->
                IF t \in Clients THEN Idle
                ELSE IF t = "b1"
                THEN [NoThread EXCEPT !.pc = "auto_start", !.op = "batch",
                                      !.loc = Worker(TARGET_STEPS, TRUE)]
                ELSE NoThread]

NextDual ==
    \/ \E c \in DualClients : get_status(c)
    \/ \E c \in DualClients : get_thrml_state(c)
    \/ \E c \in DualClients : get_native_state(c)
    \/ \E c \in DualClients : run_simulation(c)
    \/ \E c \in DualClients : run_to_target(c)
    \/ \E c \in DualClients : reset_both(c)
    \/ \E c \in DualClients : dual_update_params(c)
    \/ \E b \in BgSlots : step_native(b)
    \/ \E b \in BgSlots : run_batch_simulation(b)
    \/ \E b \in BgSlots : auto_run_to_target(b)

SpecDual == InitDual /\ [][NextDual]_vars

-----------------------------------------------------------------------------
(* Both servers: a behaviour of server.py or a behaviour of dual_server.py *)

InitBatch == InitServer \/ InitDual

NextBatch ==
    \/ \E c \in Clients : program = "server" /\ init_simulation(c)
    \/ \E c \in Clients : program = "server" /\ api_get_state(c)
    \/ \E c \in Clients : program = "server" /\ api_update_params(c)
    \/ \E c \in Clients : program = "server" /\ reset_simulation(c)
    \/ \E c \in Clients : program = "server" /\ api_interact(c)
    \/ \E c \in Clients : program = "server" /\ get_history(c)
    \/ \E c \in Clients : program = "server" /\ simulate(c)
    \/ \E c \in Clients : program = "server" /\ pause_simulation(c)
    \/ \E c \in Clients : program = "server" /\ resume_simulation(c)
    \/ \E b \in BgSlots : program = "server" /\ background_simulator(b)
    \/ \E c \in DualClients : program = "dual" /\ get_status(c)
    \/ \E c \in DualClients : program = "dual" /\ get_thrml_state(c)
    \/ \E c \in DualClients : program = "dual" /\ get_native_state(c)
    \/ \E c \in DualClients : program = "dual" /\ run_simulation(c)
    \/ \E c \in DualClients : program = "dual" /\ run_to_target(c)
    \/ \E c \in DualClients : program = "dual" /\ reset_both(c)
    \/ \E c \in DualClients : program = "dual" /\ dual_update_params(c)
    \/ \E b \in BgSlots : program = "dual" /\ step_native(b)
    \/ \E b \in BgSlots : program = "dual" /\ run_batch_simulation(b)
    \/ \E b \in BgSlots : program = "dual" /\ auto_run_to_target(b)

SpecBatch == InitBatch /\ [][NextBatch]_vars

\* any of the three programs
InitAll == InitBatch \/ InitApi

NextAll == NextBatch \/ NextApi

SpecAll == InitAll /\ [][NextAll]_vars

-----------------------------------------------------------------------------
(* simulation.py as a library: the methods of two SimulationSession objects *)
(* called directly, with no server in between                               *)

\* the second session object
T == twin[1]

\* (rows, cols) of the two sessions
PairDims == {<<1, 2>>, <<2, 2>>, <<1, 4>>, <<3, 3>>}

\* n_steps of simulate_steps
PairSteps == {1, 2}

\* kwargs of update_params
PairParams == {[noise_level |-> 0], [F |-> Milli(30)]}

\* pattern of reset
PairPatterns == {"stripes", "center_square"}

\* (x, y, brush_size) of interact
PairBrush == {<<0, 0, 0>>}

\* the Field with U = 1 and V = 0 in every cell
Rest(rows, cols) ==
    [u |-> [i \in 1..NCells(rows, cols) |-> Scale],
     v |-> [i \in 1..NCells(rows, cols) |-> 0]]

\* a session whose Field has been assigned: current_u, current_v and the
\* one-entry histories
WithField(s, f) ==
    [s EXCEPT !.current_u = f.u, !.current_v = f.v,
              !.history_u = <<f.u>>, !.history_v = <<f.v>>]

\* the call just made on the sessions
Called(op, args) == last' = [NoCall EXCEPT !.op = op, !.args = args]

\* both histories stay within the length the model follows them to
PairRoom(n) == Len(S.history_v) + n <= MaxHist /\ Len(T.history_v) + n <= MaxHist

\* update_params(**kw) on both sessions
both_update_params ==
    \E kw \in PairParams :
        /\ session' = Some(update_params(S, kw))
        /\ twin' = Some(update_params(T, kw))
        /\ Called("update_params", <<kw>>)
        /\ UNCHANGED <<dual_globals, program, session_lock, simulation_running, thr, ghost>>

\* reset(pattern) on both sessions
both_reset ==
    \E pattern \in PairPatterns :
        /\ session' = Some(reset(S, pattern))
        /\ twin' = Some(reset(T, pattern))
        /\ Called("reset", <<pattern>>)
        /\ UNCHANGED <<dual_globals, program, session_lock, simulation_running, thr, ghost>>

\* interact(x, y, brush_size) on both sessions
both_interact ==
    \E b \in PairBrush :
        /\ PairRoom(1)
        /\ session' = Some(interact(S, b[1], b[2], b[3]))
        /\ twin' = Some(interact(T, b[1], b[2], b[3]))
        /\ Called("interact", b)
        /\ UNCHANGED <<dual_globals, program, session_lock, simulation_running, thr, ghost>>

\* simulate_steps(n) on both sessions: each call makes its own key
both_simulate_steps ==
    \E n \in PairSteps :
        /\ PairRoom(n)
        /\ \E key1 \in Keys(S), key2 \in Keys(T) :
             /\ session' = Some(RunBody(S, simulate_steps_keyed(S, key1, n)))
             /\ twin' = Some(RunBody(T, simulate_steps_keyed(T, key2, n)))
        /\ Called("simulate_steps", <<n>>)
        /\ UNCHANGED <<dual_globals, program, session_lock, simulation_running, thr, ghost>>

\* simulate_steps(n) on the first session only: the two sessions have
\* different pasts from here on
first_simulate_steps ==
    \E n \in PairSteps :
        /\ PairRoom(n)
        /\ session' = Some(simulate_steps(S, n))
        /\ Called("first_simulate_steps", <<n>>)
        /\ UNCHANGED <<dual_globals, program, twin, session_lock, simulation_running, thr,
                       ghost>>

\* simulate_steps(a) then simulate_steps(b) on the first session, one
\* simulate_steps(a + b) on the second
split_simulate_steps ==
    \E a \in PairSteps, b \in PairSteps :
        /\ PairRoom(a + b)
        /\ session' = Some(simulate_steps(simulate_steps(S, a), b))
        /\ twin' = Some(simulate_steps(T, a + b))
        /\ Called("split_simulate_steps", <<a, b>>)
        /\ UNCHANGED <<dual_globals, program, session_lock, simulation_running, thr, ghost>>

\* two sessions made alike: by SimulationSession(rows, cols), or with the
\* Field U = 1, V = 0 assigned to both
InitPair ==
    /\ program = "pair"
    /\ native = NativeModule
    /\ simulation_status = StatusInit
    /\ params = ParamsInit
    /\ session_lock = "free"
    /\ simulation_running = FALSE
    /\ thr = [t \in Threads |-> IF t \in Clients THEN Idle ELSE NoThread]
    /\ ghost = Ghost0
    /\ last = NoCall
    /\ \E d \in PairDims :
         \E s \in {SimulationSession(d[1], d[2]),
                   WithField(SimulationSession(d[1], d[2]), Rest(d[1], d[2]))} :
            /\ session = Some(s)
            /\ twin = Some(s)

NextPair ==
    \/ both_update_params
    \/ both_reset
    \/ both_interact
    \/ both_simulate_steps
    \/ first_simulate_steps
    \/ split_simulate_steps

SpecPair == InitPair /\ [][NextPair]_vars

-----------------------------------------------------------------------------
(* Properties of server.py, checked under Spec *)

IsPrefix(a, b) ==
    /\ Len(a) <= Len(b)
    /\ \A i \in 1..Len(a) : a[i] = b[i]

\* the two histories have one length and the current Field is their last entry
Consistent(s) ==
    /\ Len(s.history_u) = Len(s.history_v)
    /\ Len(s.history_v) >= 1
    /\ s.current_u = s.history_u[Len(s.history_u)]
    /\ s.current_v = s.history_v[Len(s.history_v)]

\* thread t has entered its `with` block and has not yet assigned anything:
\* what it sees is what its operation observes
Observing(t) == At(t, "body") /\ thr[t].done = 0

AliveLoops == {b \in BgSlots : ~At(b, "none")}

\* C1: every session operation and every background tick runs under the one
\* session lock: at most one thread is inside a `with` block and it is the
\* lock's holder, and in every state an operation can observe (the lock is
\* free, or an operation has just entered its block) the activator and
\* inhibitor histories have equal length and the current Field is the last
\* history entry.
C1_LockAtomic ==
    /\ \A t \in Threads : At(t, "body") => session_lock = t
    /\ (session_lock = "free" \/ \E t \in Threads : Observing(t))
          => (Live => Consistent(S))

\* C1 witness: a reader has entered its block on a three-entry history while
\* a background thread waits for the lock
C1_Witness ==
    /\ Live
    /\ Len(S.history_v) = 3
    /\ \E c \in Clients : Observing(c) /\ thr[c].op = "state"
    /\ \E b \in BgSlots : At(b, "with")

\* C2: after init or reset, when the steps of the simulate_steps calls
\* (background ticks included) sum to N and m interact calls were made, the
\* maximum step index reported is N + m.
C2_HistoryLength ==
    (program = "server" /\ session_lock = "free" /\ Live)
        => /\ get_state(S, None)[1].maxStep = ghost.N + ghost.m
           /\ Len(S.history_v) - 1 = ghost.N + ghost.m

\* C2 witness: a reset, then steps and a paint have completed
C2_Witness ==
    /\ program = "server" /\ session_lock = "free" /\ Live
    /\ ghost.N >= 1 /\ ghost.m >= 1
    /\ Len(S.history_v) = 3
    /\ S.history_v[1] = create_initial_chemicals(S.rows, S.cols, "center_square").v

\* a step that is an assignment made by init or by reset
Replacing ==
    \E t \in Threads :
        /\ At(t, "body")
        /\ thr[t].op \in {"init", "reset"}
        /\ thr'[t].done = thr[t].done + 1

HandlerStep(c, op) ==
    /\ thr'[c] # thr[c]
    /\ thr[c].op = op \/ thr'[c].op = op

\* the handler of init returns to its caller
InitReturns(c) ==
    /\ thr[c].op = "init"
    /\ At(c, "init_check") \/ At(c, "init_start")
    /\ thr'[c].pc = "idle"

\* the handler of reset returns to its caller
ResetReturns(c) ==
    /\ thr[c].op = "reset"
    /\ At(c, "body")
    /\ thr'[c].pc = "idle"

\* C6, as claimed: init and reset are accepted from any state and leave the
\* session Ready: when either returns, the scheduler flag is off and no
\* background loop is alive.
C6_ReturnsToReady ==
    [][ \A c \in Clients :
            (InitReturns(c) \/ ResetReturns(c))
                => (~simulation_running' /\ \A b \in BgSlots : thr'[b].pc = "none") ]_vars

\* C6, amended: neither init nor reset returns the session to Ready.  No
\* step of either clears the scheduler flag or stops or moves a background
\* loop; init, when it finds the flag off, sets it and starts a loop (Empty
\* and Ready become Running); reset runs only when a session exists and
\* leaves flag and loops as they are.
C6_StaysRunning ==
    [][ \A c \in Clients :
          /\ (HandlerStep(c, "init") \/ HandlerStep(c, "reset"))
                => /\ simulation_running => simulation_running'
                   /\ \A b \in BgSlots : ~At(b, "none") => thr'[b] = thr[b]
          /\ HandlerStep(c, "reset")
                => /\ Live
                   /\ simulation_running' = simulation_running
                   /\ \A b \in BgSlots : thr'[b] = thr[b]
          /\ (At(c, "init_check") /\ HandlerStep(c, "init") /\ ~simulation_running)
                => thr'[c].pc = "init_set"
          /\ (At(c, "init_set") /\ HandlerStep(c, "init"))
                => (simulation_running' /\ thr'[c].pc = "init_start")
          /\ (At(c, "init_start") /\ HandlerStep(c, "init"))
                => \E b \in BgSlots : At(b, "none") /\ thr'[b].pc = "while" ]_vars

\* C6 witness: init was called on a running session and has returned, the
\* flag still set and the loop still alive; a reset is in progress
C6_Witness ==
    /\ Live /\ simulation_running
    /\ AliveLoops # {}
    /\ ghost = Ghost0 /\ Len(S.history_v) = 1
    /\ \E c \in Clients : thr[c].op = "reset" /\ At(c, "body") /\ Len(thr[c].todo) = 0
    /\ \E c \in Clients : thr[c].op = "init" /\ At(c, "init_check")

\* C7, as claimed: pause and resume toggle one scheduler: with no request in
\* progress, a set flag means exactly one background loop is alive.
C7_OneScheduler ==
    (program = "server" /\ \A c \in Clients : At(c, "idle"))
        => (simulation_running => Cardinality(AliveLoops) = 1)

-----------------------------------------------------------------------------
(* Properties of the batches, checked under SpecDual and SpecBatch *)

\* the batch threads in flight
BatchWorkers == {b \in BgSlots : thr[b].op = "batch"}

\* C4: single-flight batching: while a batch (run N steps, or run to target)
\* is in flight a further batch request starts no second worker, so at most
\* one batch worker is ever active.
C4_SingleFlight == program = "dual" => Cardinality(BatchWorkers) <= 1

\* thread t holds the lock for a multi-step batch: POST /api/simulate of
\* server.py, or a sub-batch of a worker of dual_server.py
Batching(t) == session_lock = t /\ thr[t].op \in {"simulate", "batch"}

\* the steps the batch has appended since it took the lock
HeldSteps(t) == Len(S.history_v) - thr[t].held

\* C5: a multi-step batch holds the lock for one step at a time: the lock is
\* released between any two consecutive steps of the batch.
C5_LockPerStep == \A t \in Threads : Batching(t) => HeldSteps(t) <= 1

\* C5, as the code has it: simulate(n) of server.py keeps the lock until all
\* its n steps are appended; a batch worker of dual_server.py keeps it for a
\* whole sub-batch of min(batch_size, steps left) steps, and does not hold it
\* between two sub-batches.
C5_LockPerCall ==
    /\ \A t \in Threads :
        (thr[t].op = "simulate" /\ At(t, "body")) =>
            /\ session_lock = t
            /\ Len(thr[t].todo) = 0 =>
                  HeldSteps(t) = IF thr[t].arg < 1 THEN 0 ELSE thr[t].arg
    /\ \A t \in Threads :
        thr[t].op = "batch" =>
            IF At(t, "body")
            THEN /\ session_lock = t
                 /\ HeldSteps(t) = Min(batch_size,
                                       thr[t].loc.n_steps - thr[t].loc.batch * batch_size)
            ELSE session_lock # t

\* C5 witness: a request for the state holds the lock between the two
\* sub-batches of a worker, whose first sub-batch appended batch_size steps
C5_Witness ==
    \E b \in BgSlots :
        /\ thr[b].op = "batch"
        /\ batches(thr[b].loc.n_steps) = 2
        /\ thr[b].loc.batch = 1
        /\ batch_size > 1
        /\ Len(S.history_v) = 1 + batch_size
        /\ session_lock = "c1"
        /\ thr["c1"].op = "state"

-----------------------------------------------------------------------------
(* Properties of the handlers' responses, checked under SpecApi *)

\* the last request was `op`, served on a session
Served(op) == program = "api" /\ Live /\ last.op = op

\* C8: get_state(step) answers with the entry stored at index step, labelled
\* step, and maxStep = len(history) - 1 when 0 <= step < len(history); with
\* the latest entry when step is omitted; and with 'Invalid step' and no
\* entry when step is negative or >= len(history).
C8_GetState ==
    Served("state") =>
        LET arg == last.args[1]
            r == last.result
            n == Len(S.history_v)
            step == IF IsNone(arg) THEN n - 1 ELSE arg[1]
        IN  IF 0 <= step /\ step < n
            THEN /\ r.status = 200
                 /\ Len(r.data) = 1
                 /\ r.data[1].step = step
                 /\ r.data[1].maxStep = n - 1
                 /\ r.data[1].u_grid = S.history_u[step + 1]
                 /\ r.data[1].v_grid = S.history_v[step + 1]
            ELSE /\ r.status = 400
                 /\ r.error = "Invalid step"
                 /\ Len(r.data) = 0

\* C8 witness: the middle entry of a three-entry history was asked for and
\* returned, and it differs from the latest entry
C8_Witness ==
    /\ Served("state")
    /\ Len(S.history_v) = 3
    /\ last.args[1] = Some(1)
    /\ last.result.status = 200
    /\ S.history_v[2] # S.history_v[3]

\* the arguments of the last /api/history request
HStart == last.args[1]

HEnd == IF IsNone(last.args[2]) THEN Len(S.history_v) ELSE last.args[2][1]

HStride == last.args[3]

\* the steps start, start + stride, ... below stop
StepsBelow(start, stop, stride) ==
    LET count == IF start >= stop THEN 0 ELSE (stop - start + stride - 1) \div stride
    IN  [j \in 1..count |-> start + (j - 1) * stride]

\* C9: get_history_range(start, end, stride) returns, in increasing order,
\* exactly the entries at steps start, start + stride, ... below
\* min(end, len(history)), each frame labelled with the step it holds.
C9_RangeExact ==
    (Served("history") /\ HStride >= 1) =>
        LET steps == StepsBelow(HStart, Min(HEnd, Len(S.history_v)), HStride)
            frames == last.result.data
        IN  /\ last.result.status = 200
            /\ Len(frames) = Len(steps)
            /\ \A j \in 1..Len(steps) :
                /\ steps[j] \in 0..(Len(S.history_v) - 1)
                /\ frames[j].step = steps[j]
                /\ frames[j].v_grid = S.history_v[steps[j] + 1]

\* what holds of the code: the same, for requests with start >= 0
C9_RangeFromZero ==
    (Served("history") /\ HStride >= 1 /\ HStart >= 0) =>
        LET steps == StepsBelow(HStart, Min(HEnd, Len(S.history_v)), HStride)
            frames == last.result.data
        IN  /\ last.result.status = 200
            /\ Len(frames) = Len(steps)
            /\ \A j \in 1..Len(steps) :
                /\ steps[j] \in 0..(Len(S.history_v) - 1)
                /\ frames[j].step = steps[j]
                /\ frames[j].v_grid = S.history_v[steps[j] + 1]

\* C10: get_history_range with start > end or with stride <= 0 returns an
\* empty sequence and raises no error.
C10_EmptyNoError ==
    (Served("history") /\ (HStart > HEnd \/ HStride <= 0)) =>
        /\ last.result.status = 200
        /\ Len(last.result.data) = 0

\* what holds of the code: start > end gives no frames when stride >= 1
C10_EmptyForward ==
    (Served("history") /\ HStart > HEnd /\ HStride >= 1) =>
        /\ last.result.status = 200
        /\ Len(last.result.data) = 0

-----------------------------------------------------------------------------
(* Properties of a server without a session, checked under SpecAll *)

\* a request handler is inside the `with` block of /api/init
Initialising == \E c \in Clients : thr[c].op = "init" /\ At(c, "body")

\* what holds in every state without a session
EmptyState ==
    /\ (program = "api" /\ last.op \notin {"", "init"}) =>
            last.result = Response(400, "No active session", <<>>)
    /\ program = "server" =>
            /\ \A b \in BgSlots : thr[b].op = "tick" =>
                    Len(thr[b].todo) = 0 /\ thr[b].arg = 0
            /\ \A c \in Clients : thr[c].pc = "body" => thr[c].op = "init"
    /\ ghost = Ghost0

\* a step that creates the first session is a step of init
CreatedByInit ==
    (~Live /\ Live') =>
        \/ program = "api" /\ last'.op = "init"
        \/ program = "server" /\ Initialising

\* C11: while no session exists, every operation other than init is answered
\* with the error 'No active session' (status 400) and leaves the server
\* without a session, and a tick of the background scheduler steps nothing:
\* only init creates a session.
C11_NoActiveSession ==
    /\ [](program \in {"api", "server"} /\ ~Live => EmptyState)
    /\ [][(program \in {"api", "server"}) => CreatedByInit]_vars

\* C11 witness: a simulate request was refused for want of a session
C11_Witness ==
    /\ program = "api"
    /\ ~Live
    /\ last.op = "simulate"
    /\ last.result.status = 400
    /\ last.result.error = "No active session"

\* the scheduler ticks while there is no session (reached under SpecAll)
C11_TickWithoutSession ==
    /\ program = "server"
    /\ ~Live
    /\ simulation_running
    /\ \E b \in BgSlots : thr[b].op = "tick" /\ session_lock = b

-----------------------------------------------------------------------------
(* Properties of init, checked under SpecApi *)

\* the last request was /api/init with a non-positive rows or cols
BadDimensions ==
    program = "api" /\ last.op = "init" /\ (last.args[1] <= 0 \/ last.args[2] <= 0)

\* C12: init with non-positive rows or cols is answered with the explicit
\* failure InvalidDimensions (a 400, not a crash) and creates or replaces no
\* session.
C12_InvalidDimensions ==
    /\ [](BadDimensions =>
            /\ last.result.status = 400
            /\ last.result.error = "InvalidDimensions")
    /\ [][BadDimensions' => session' = session]_vars

\* what holds of the code: a negative dimension is answered 500 and leaves
\* the session as it was
C12_NegativeCrashes ==
    /\ [](BadDimensions /\ (last.args[1] < 0 \/ last.args[2] < 0) =>
            last.result.status = 500)
    /\ [][(BadDimensions' /\ (last'.args[1] < 0 \/ last'.args[2] < 0)) =>
            session' = session]_vars

-----------------------------------------------------------------------------
(* Properties of update_params, checked under SpecApi *)

\* the step just taken served `op` with status 200
Answers(op) == program = "api" /\ last'.op = op /\ last'.result.status = 200

\* the states n steps of the sampler produce from session s with parameters prm
StatesWith(s, prm, n) ==
    SampleFrom(prm, s.rows, s.cols, s.current_u, s.current_v, Len(s.history_u), 1, n)

\* C13: update_params sets the parameters it is given and keeps every other
\* parameter; it leaves the history, the current Field and the step counter
\* as they were; and the next simulate_steps steps with the new values.
C13_UpdateParams ==
    [][/\ Answers("params") =>
            LET kw == last'.args[1]
            IN  /\ DOMAIN S'.params = DOMAIN S.params
                /\ \A key \in DOMAIN S.params :
                        S'.params[key] = IF key \in DOMAIN kw THEN kw[key]
                                         ELSE S.params[key]
                /\ S'.history_u = S.history_u
                /\ S'.history_v = S.history_v
                /\ S'.current_u = S.current_u
                /\ S'.current_v = S.current_v
                /\ S'.rows = S.rows /\ S'.cols = S.cols
       /\ \A n \in StepCountArgs : (Answers("simulate") /\ last'.args = <<n>>) =>
            LET states == StatesWith(S, S.params, n)
            IN  /\ S'.history_u = S.history_u \o [i \in 1..n |-> states[i].u]
                /\ S'.history_v = S.history_v \o [i \in 1..n |-> states[i].v]
                /\ S'.current_u = states[n].u
                /\ S'.current_v = states[n].v
                /\ S'.params = S.params
      ]_vars

\* C13 witness: F was updated, then k and Du, and the step simulated next
\* differs from the step the default parameters give
C13_Witness ==
    /\ Served("simulate")
    /\ last.args = <<1>>
    /\ last.result.status = 200
    /\ S.params.F = Milli(30) /\ S.params.k = Milli(50) /\ S.params.Du = Milli(100)
    /\ S.params.Dv = DefaultParams.Dv
    /\ LET n == Len(S.history_u)
           old == Sweep(DefaultParams, S.rows, S.cols,
                        S.history_u[n - 1], S.history_v[n - 1], n - 1, 1)
       IN  S.current_u # old.u

-----------------------------------------------------------------------------
(* Properties of reset, checked under SpecApi *)

\* C14: reset(pattern) leaves a history of exactly one entry, step 0, equal
\* to the new current Field, so that maxStep is 0, and keeps rows and cols.
C14_ResetHistory ==
    [][Answers("reset") =>
        /\ Len(S'.history_u) = 1
        /\ Len(S'.history_v) = 1
        /\ S'.history_u[1] = S'.current_u
        /\ S'.history_v[1] = S'.current_v
        /\ get_state(S', None)[1].maxStep = 0
        /\ S'.rows = S.rows
        /\ S'.cols = S.cols]_vars

\* C14 witness: a history of three entries on the 2 x 2 grid was reset to
\* the centered square
C14_Witness ==
    /\ Served("reset")
    /\ last.result.status = 200
    /\ last.args = <<"center_square">>
    /\ last.before.len = 3
    /\ Len(S.history_v) = 1
    /\ S.rows = 2 /\ S.cols = 2

\* C15: reset replaces the session wholesale as init does, apart from the
\* dimensions: after reset the Parameters are the default Parameters,
\* whatever update_params calls came before.
C15_ResetDefaultParams ==
    (Served("reset") /\ last.result.status = 200) =>
        /\ S.params = DefaultParams
        /\ S.sampler = DefaultParams

\* what holds of the code: reset leaves the Parameters as they were
C15_ResetKeepsParams ==
    [][Answers("reset") => S'.params = S.params /\ S'.sampler = S.sampler]_vars

\* the pattern names create_initial_chemicals has a generator for
KnownPatterns == {"center_square", "random", "stripes"}

\* the last request was a reset with a pattern name that has no generator
UnknownPattern == Served("reset") /\ last.args[1] \notin KnownPatterns

\* C16: reset with a pattern name that has no generator succeeds and gives
\* the initial Field of reset('stripes').
C16_UnknownIsStripes ==
    UnknownPattern =>
        /\ last.result.status = 200
        /\ S.current_u = create_initial_chemicals(S.rows, S.cols, "stripes").u
        /\ S.current_v = create_initial_chemicals(S.rows, S.cols, "stripes").v

\* what holds of the code: it succeeds, and no cell is set to A = 0, B = 1;
\* the Field is the uniform A = 1, B = 0 with the seeded perturbation
C16_UnknownIsBlank ==
    UnknownPattern =>
        /\ last.result.status = 200
        /\ S.current_u = [i \in 1..NCells(S.rows, S.cols) |->
                             Clip(Scale + Perturbation(i))]
        /\ S.current_v = [i \in 1..NCells(S.rows, S.cols) |->
                             Clip(Perturbation(NCells(S.rows, S.cols) + i))]

-----------------------------------------------------------------------------
(* Properties of interact, checked under SpecApi *)

Abs(x) == IF x < 0 THEN -x ELSE x

\* cell i of session s lies in the disk of the given radius around (x, y) on
\* the torus: one of its periodic images is within the radius of the centre
InWrappedDisk(s, x, y, radius, i) ==
    LET span == Abs(x) + Abs(y) + radius + s.rows + s.cols
    IN  \E kx \in (-span)..span, ky \in (-span)..span :
            LET ddx == ColOf(i, s.cols) + kx * s.cols - x
                ddy == RowOf(i, s.cols) + ky * s.rows - y
            IN  ddx * ddx + ddy * ddy <= radius * radius

\* C17: interact(x, y, radius) sets A = 0 and B = 1 in exactly the cells of
\* the wrapped disk, the cells ((y + dy) mod rows, (x + dx) mod cols) with
\* dx * dx + dy * dy <= radius * radius, and leaves every other cell of the
\* current Field at its value before the paint, wherever the centre is.
C17_PaintExact ==
    [][Answers("interact") =>
        \A i \in 1..NCells(S.rows, S.cols) :
            IF InWrappedDisk(S, last'.args[1], last'.args[2], last'.args[3], i)
            THEN S'.current_u[i] = 0 /\ S'.current_v[i] = Scale
            ELSE /\ S'.current_u[i] = S.current_u[i]
                 /\ S'.current_v[i] = S.current_v[i]]_vars

\* C17 witness: a disk of radius 1 centred on column 0 of the 1 x 4 grid has
\* wrapped to column 3 and left column 2 unpainted
C17_Witness ==
    /\ Served("interact")
    /\ last.result.status = 200
    /\ last.args = <<0, 0, 1>>
    /\ S.rows = 1 /\ S.cols = 4
    /\ S.current_u[4] = 0 /\ S.current_v[4] = Scale
    /\ S.current_u[3] # 0 /\ S.current_v[3] # Scale

-----------------------------------------------------------------------------
(* Properties of simulate_steps, checked under SpecApi *)

\* the step just taken served simulate with n <= 0 on a session
NonPositiveSteps ==
    program = "api" /\ Live /\ last'.op = "simulate" /\ last'.args[1] <= 0

\* C19: simulate_steps(n) with n <= 0 is a no-op: it raises no error and
\* leaves the history, the current Field and maxStep as they were.
C19_NonPositiveNoOp ==
    [][NonPositiveSteps =>
        /\ last'.result.status = 200
        /\ session' = session]_vars

\* what holds of the code: the call changes nothing, and it raises
C19_NonPositiveRaises ==
    [][NonPositiveSteps =>
        /\ last'.result.status = 500
        /\ session' = session]_vars

-----------------------------------------------------------------------------
(* Boundedness, checked under SpecApi *)

\* every cell of grid g is a concentration in [0, 1]
Bounded(g) == \A i \in 1..Len(g) : 0 <= g[i] /\ g[i] <= Scale

\* the parameters of the session are numbers
FiniteParams == \A key \in DOMAIN S.params : ~IsNaN(S.params[key])

\* C20: in every reachable state, after any sequence of init, reset,
\* update_params (with any parameter values), simulate_steps and interact,
\* every cell of the current Field and of every history entry lies in [0,1].
C20_Bounded ==
    Live =>
        /\ Bounded(S.current_u) /\ Bounded(S.current_v)
        /\ \A j \in 1..Len(S.history_u) : Bounded(S.history_u[j])
        /\ \A j \in 1..Len(S.history_v) : Bounded(S.history_v[j])

\* what holds of the code: no call takes a Field and a history in [0,1]
\* out of [0,1] while the parameters it finds are numbers
C20_BoundedWhileFinite ==
    [][(program = "api" /\ (Live => FiniteParams /\ C20_Bounded)) => C20_Bounded']_vars

-----------------------------------------------------------------------------
(* The scheduler under every interleaving, checked under Spec *)

\* C27, as claimed: under every interleaving of init, pause and resume, also
\* while their handlers are between reading the flag and starting a thread,
\* at most one background loop is alive.
C27_AtMostOneLoop == program = "server" => Cardinality(AliveLoops) <= 1

-----------------------------------------------------------------------------
(* Reset of the comparison server, checked under SpecDual *)

\* the batch workers that have steps left to append
Appending ==
    {b \in BatchWorkers :
        \/ thr[b].pc \in {"auto_start", "step_native", "step_clip", "native_status",
                          "with", "body"}
        \/ thr[b].pc = "for_batch" /\ thr[b].loc.batch < batches(thr[b].loc.n_steps)}

\* the requests that passed the test of reset_both and are replacing the
\* session, the native grids and their histories
Resetting == {c \in DualClients : thr[c].op = "reset_both"}

\* C26, as claimed: a reset is refused while a batch worker (run N steps or
\* run to target) is in flight, so no request replaces the session and the
\* native history while a worker has steps left to append.
C26_ResetRejected == program = "dual" => (Resetting # {} => Appending = {})

-----------------------------------------------------------------------------
(* Reproducibility of reset, checked under SpecApi *)

\* C24: with no tick in between, reset("stripes") served twice in a row
\* gives the same session: the second call leaves the initial grids, the
\* history and the parameters as the first call left them.
C24_ResetIdempotent ==
    [][(/\ Served("reset")
        /\ last.result.status = 200
        /\ last.args = <<"stripes">>
        /\ Answers("reset")
        /\ last'.args = <<"stripes">>) => session' = session]_vars

\* C24 witness: the second of two calls of reset("stripes") was served on the
\* 1 x 4 grid, whose first column is a stripe
C24_Witness ==
    /\ Served("reset")
    /\ last.result.status = 200
    /\ last.args = <<"stripes">>
    /\ last.before.again
    /\ S.rows = 1 /\ S.cols = 4
    /\ S.current_u[1] < S.current_u[2]
    /\ S.history_u = <<S.current_u>>

-----------------------------------------------------------------------------
(* Progress of the background loop, checked under SpecFair *)

\* the history has reached the length the model follows it to
HistoryFull == Live /\ ~Room(1)

\* C25: while the scheduler runs and a session exists, a background loop
\* that has come to its `with` statement completes its tick in the end,
\* whatever requests are served meanwhile (unless these have filled the
\* history first), and a completed tick has advanced the history by one step.
C25_TickProgress ==
    /\ \A b \in BgSlots :
         (At(b, "with") /\ Live) ~> (At(b, "while") \/ HistoryFull)
    /\ [][\A b \in BgSlots :
            (thr[b].op = "tick" /\ Live /\ At(b, "body") /\ thr'[b].pc = "while")
                => /\ Len(S'.history_v) = thr[b].held + 1
                   /\ Len(S'.history_u) = Len(S'.history_v)
                   /\ session_lock' = "free"]_vars

\* C25 witness: a tick has appended its step after a request appended one
\* (an interact), and is about to release the lock
C25_Witness ==
    /\ program = "server"
    /\ simulation_running
    /\ Live
    /\ ghost.m >= 1
    /\ \E b \in BgSlots :
         /\ thr[b].op = "tick"
         /\ At(b, "body")
         /\ Len(thr[b].todo) = 0
         /\ session_lock = b
         /\ Len(S.history_v) = thr[b].held + 1

-----------------------------------------------------------------------------
(* Determinism, checked under SpecPair *)

\* the calls SpecPair makes on both sessions alike
SameCalls == {"update_params", "reset", "interact", "simulate_steps"}

-----------------------------------------------------------------------------
(* Batching of the steps, checked under SpecPair *)

\* the two sessions are in the same state and are stepped, the first by
\* simulate_steps(a) then simulate_steps(b), the second by simulate_steps(a + b)
SplitStep == program = "pair" /\ last'.op = "split_simulate_steps" /\ session = twin

\* C28, as claimed: from the same session state and parameters,
\* simulate_steps(a) followed by simulate_steps(b) leaves the same history
\* entries and the same current Field as one simulate_steps(a + b).
C28_BatchingIndependent == [][SplitStep => session' = twin']_vars

\* what holds of the code: the two agree when the noise level is 0, and
\* they always agree on the number of entries
C28_AgreeWithoutNoise ==
    [][SplitStep =>
        /\ S.sampler.noise_level = 0 => session' = twin'
        /\ Len(S'.history_u) = Len(T'.history_u)
        /\ Len(S'.history_v) = Len(T'.history_v)]_vars

-----------------------------------------------------------------------------
(* The Laplacian of the step, checked under SpecPair *)

\* the Laplacian of the claim at cell i of grid g: the four neighbours with
\* indices modulo rows and cols, counted with multiplicity, minus four times
\* the cell
FourNeighbours(g, rows, cols, i) ==
    LET r == RowOf(i, cols)
        c == ColOf(i, cols)
    IN  g[Idx((r - 1) % rows, c, cols)] + g[Idx((r + 1) % rows, c, cols)]
        + g[Idx(r, (c - 1) % cols, cols)] + g[Idx(r, (c + 1) % cols, cols)]
        - 4 * g[i]

\* the Laplacian the next step of session s uses at cell i of grid g
StepLaplacian(s, g, i) == laplacian(g, interactions(s.rows, s.cols, i), i)

\* the grids the next step of session s takes the Laplacian of
StepGrids(s) == {s.current_u, s.current_v}

Uniform(g) == \A i \in 1..Len(g) : g[i] = g[1]

\* C22, as claimed: at every cell the Laplacian used by the step is the sum
\* of the four neighbours (modulo rows and cols, with multiplicity) minus
\* four times the cell.
C22_Laplacian ==
    program = "pair" =>
        \A g \in StepGrids(S) : \A i \in 1..Len(g) :
            StepLaplacian(S, g, i) = FourNeighbours(g, S.rows, S.cols, i)

\* what holds of the code: the Laplacian is zero on a uniform grid, and on a
\* grid of at least 3 x 3 cells it is a quarter of the claimed value (the
\* average of the four neighbours minus the cell), the division rounded down
C22_AverageMinusCell ==
    program = "pair" =>
        \A g \in StepGrids(S) : \A i \in 1..Len(g) :
            /\ Uniform(g) => StepLaplacian(S, g, i) = 0
            /\ (S.rows >= 3 /\ S.cols >= 3) =>
                 /\ 4 * StepLaplacian(S, g, i) <= FourNeighbours(g, S.rows, S.cols, i)
                 /\ 4 * StepLaplacian(S, g, i) > FourNeighbours(g, S.rows, S.cols, i) - 4

-----------------------------------------------------------------------------
(* The rest state, checked under SpecPair *)

\* the Field of session s is U = 1, V = 0 in every cell
AtRest(s) ==
    /\ s.current_u = Rest(s.rows, s.cols).u
    /\ s.current_v = Rest(s.rows, s.cols).v

\* simulate_steps is called on a session at rest
StepAtRest == program = "pair" /\ last'.op = "simulate_steps" /\ AtRest(S)

\* C23, as claimed: stepping the Field U = 1, V = 0 with the parameters a
\* session is created with leaves both grids unchanged, for any number of
\* steps.
C23_FixedPoint ==
    [][(StepAtRest /\ S.params = DefaultParams /\ S.sampler = DefaultParams)
        => AtRest(S')]_vars

\* what holds of the code: the Field stays at rest, and every entry the
\* call appends is the rest Field, when the noise level is 0; with noise
\* the cells still stay in [0, 1]
C23_RestWithoutNoise ==
    [][StepAtRest =>
        /\ S.sampler.noise_level = 0 =>
             /\ AtRest(S')
             /\ \A j \in 1..Len(S'.history_u) :
                  Len(S.history_u) < j => S'.history_u[j] = S.current_u
             /\ \A j \in 1..Len(S'.history_v) :
                  Len(S.history_v) < j => S'.history_v[j] = S.current_v
        /\ Bounded(S'.current_u) /\ Bounded(S'.current_v)]_vars

====
